---- MODULE Spec2Model ----
(***************************************************************************)
(* A model of dirlock (src/dirlock/__init__.py): a lock that is held by    *)
(* creating a directory.  Several single-threaded processes share one      *)
(* filesystem; each process has its own registry (_allActiveLocks), its    *)
(* own DirLock objects, an atexit hook and SIGINT/SIGTERM handlers.        *)
(*                                                                         *)
(* Every statement of acquire(), release() and _clean_locks() that reads   *)
(* or writes shared state is one step, so that other processes, and a      *)
(* signal handler of the same process, can run between any two of them.    *)
(***************************************************************************)
EXTENDS Integers, Sequences, FiniteSets, TLC

\* ------------------------------------------------------------------ bounds
\* External signals delivered in one behaviour.
MaxSignals == 1
\* Time, in ticks, that one pass of the poll loop may take beyond its sleep.
MaxJitter == 1
\* Times the body of the module is executed in one process (import, reload).
MaxInits == 2

\* ----------------------------------------------------- the program's inputs
Procs == {1, 2}
Handles == {"h1", "h2", "h3", "h4"}
Paths == {"a", "b", "c"}
Signals == {"SIGINT", "SIGTERM"}

\* DirLock.__init__: the constructor's arguments, one column per object.
owner == [h1 |-> 1, h2 |-> 1, h3 |-> 1, h4 |-> 2]
lock_dir == [h1 |-> "a", h2 |-> "b", h3 |-> "c", h4 |-> "a"]
timeout_interval == [h1 |-> -1, h2 |-> 0, h3 |-> -1, h4 |-> 1]
retry_interval == [h1 |-> 1, h2 |-> 1, h3 |-> 1, h4 |-> 2]

\* The objects a run constructs: two processes that contend for "a", or one
\* process with three locks.
Scenarios == {{"h1", "h4"}, {"h1", "h2", "h3"}}

\* The processes that signals are sent to.
SigProcs == {1}

\* The pairs original_sigint_handler, original_sigterm_handler a run starts
\* with: what Python installs, handlers of the user, and handlers that were not
\* installed from Python (signal.getsignal() returns None).
OrigConfigs ==
    {[SIGINT |-> "default_int_handler", SIGTERM |-> "SIG_DFL"],
     [SIGINT |-> "user", SIGTERM |-> "user"],
     [SIGINT |-> "None", SIGTERM |-> "None"]}

\* No DirLock object; no directory.
NoHandle == "none"
NoDir == "none"

Min(a, b) == IF a < b THEN a ELSE b

SetMax(S) == CHOOSE x \in S : \A y \in S : y <= x

\* The elapsed time is kept up to a value no comparison of acquire() can
\* tell from a larger one.
MaxElapsed ==
    SetMax({timeout_interval[h] : h \in Handles})
      + SetMax({retry_interval[h] : h \in Handles}) + MaxJitter + 1

\* ------------------------------------------------------------------- state
VARIABLES
    dirs,       \* dirs[d]: NoDir when directory d is absent, else the handle that created it
    acquired,   \* acquired[h]: DirLock.acquired
    registry,   \* registry[p]: _allActiveLocks of process p
    stk,        \* stk[p]: the call stack of p: the running operation, and above it a signal handler
    proc,       \* proc[p]: "run", "exiting" (atexit hooks running), "exited", "killed"
    scope,      \* scope[p]: the handle whose with-block p is in, or NoHandle
    disp,       \* disp[p][s]: "dirlock" while the module's handler is installed for s, else "orig"
    orig,       \* orig[p][s]: original_sigint_handler / original_sigterm_handler of p
    nhooks,     \* nhooks[p]: registrations of _clean_locks with atexit still to run
    last,       \* last[p]: how the latest operation of p's program ended
    sigres,     \* sigres[p]: what the latest signal delivered to p led to
    nsig,       \* signals delivered so far
    hs          \* the DirLock objects that exist

vars == <<dirs, acquired, registry, stk, proc, scope, disp, orig, nhooks, last, sigres, nsig, hs>>

\* last[p].t: the elapsed time acquire() read when it raised LockTimeout;
\* last[p].first: acquire() returned after a single mkdir attempt.
\* last[p].own: the operation returned or raised by itself (it was not ended by
\* an exception of a signal handler); last[p].a0: self.acquired at its call;
\* last[p].r0: for acquire(), self was in _allActiveLocks at its call.
NoLast ==
    [op |-> "none", h |-> NoHandle, res |-> "ok", t |-> 0, first |-> FALSE,
     own |-> TRUE, a0 |-> FALSE, r0 |-> FALSE]

\* A frame of the call stack.  kind: the function; ctx: who called it; h: self
\* (for _clean_locks: dl); step: the next statement; todo: locks_to_release
\* still to visit; snap: all of locks_to_release; t: time since start_time;
\* retried: a mkdir attempt failed; missing: os.rmdir raised FileNotFoundError;
\* a0, r0: self.acquired and self in _allActiveLocks at the call; err: the error
\* with which the with-block is left.
Frame(kind, ctx, h, step, todo, err) ==
    [kind |-> kind, ctx |-> ctx, h |-> h, step |-> step, todo |-> todo,
     snap |-> {todo[i] : i \in 1 .. Len(todo)},
     t |-> 0, retried |-> FALSE, missing |-> FALSE,
     a0 |-> IF h = NoHandle THEN FALSE ELSE acquired[h],
     r0 |-> IF h = NoHandle THEN FALSE ELSE h \in registry[owner[h]],
     err |-> err]

Top(p) == stk[p][Len(stk[p])]
Below(p) == SubSeq(stk[p], 1, Len(stk[p]) - 1)
Idle(p) == proc[p] = "run" /\ stk[p] = <<>>
Running(p) == proc[p] \in {"run", "exiting"} /\ stk[p] # <<>>
InHandler(p) == stk[p] # <<>> /\ Top(p).ctx \in Signals

\* list(_allActiveLocks): the elements of a set in some order.
Orders(S) ==
    {q \in [1 .. Cardinality(S) -> S] : \A i, j \in 1 .. Cardinality(S) : i # j => q[i] # q[j]}

Init ==
    /\ dirs = [d \in Paths |-> NoDir]
    /\ acquired = [h \in Handles |-> FALSE]
    /\ registry = [p \in Procs |-> {}]
    /\ stk = [p \in Procs |-> <<>>]
    /\ hs \in Scenarios
    /\ proc = [p \in Procs |-> IF \E h \in hs : owner[h] = p THEN "run" ELSE "absent"]
    /\ scope = [p \in Procs |-> NoHandle]
    /\ disp = [p \in Procs |-> [s \in Signals |-> "dirlock"]]
    /\ orig \in {[p \in Procs |-> c] : c \in OrigConfigs}
    /\ nhooks = [p \in Procs |-> 1]
    /\ last = [p \in Procs |-> NoLast]
    /\ sigres = [p \in Procs |-> "none"]
    /\ nsig = 0


\* ------------------------------------------- how an operation's end is seen
\* A frame f of the program of p (not a signal handler) returns (r = "ok") or
\* raises r (own: by itself), with s the stack below it.  A with-block is entered only when
\* __enter__ returns (lines 143-148); __exit__ returns None, so the error that
\* leaves the block goes on (lines 150-154); an error in an atexit hook is
\* printed and the exit goes on.
EndMain(p, s, f, r, own) ==
    [stk |-> s,
     proc |-> IF f.ctx = "atexit" /\ nhooks[p] = 0 THEN "exited" ELSE proc[p],
     scope |-> CASE f.ctx = "enter" -> (IF r = "ok" THEN f.h ELSE NoHandle)
                 [] f.ctx = "exit" -> NoHandle
                 [] OTHER -> scope[p],
     last |-> [op |-> IF f.ctx = "call" THEN f.kind ELSE f.ctx,
               h |-> f.h,
               res |-> IF f.ctx = "exit" /\ r = "ok" THEN f.err ELSE r,
               t |-> IF r = "LockTimeout" THEN f.t ELSE 0,
               first |-> f.kind = "acquire" /\ r = "ok" /\ ~f.retried,
               own |-> own,
               a0 |-> f.kind # "clean" /\ f.a0,
               r0 |-> f.kind = "acquire" /\ f.r0]]

\* An exception e raised by a signal handler arrives in the program of p, whose
\* stack is s: it ends the running operation; in the body of a with-block it
\* makes __exit__ run; otherwise the program sees it.
Propagate(p, s, e) ==
    IF s # <<>>
    THEN EndMain(p, SubSeq(s, 1, Len(s) - 1), s[Len(s)], e, FALSE)
    ELSE IF scope[p] # NoHandle
    THEN [stk |-> <<Frame("release", "exit", scope[p], "check", <<>>, e)>>,
          proc |-> proc[p], scope |-> scope[p], last |-> NoLast]
    ELSE [stk |-> <<>>, proc |-> proc[p], scope |-> scope[p],
          last |-> [op |-> "main", h |-> NoHandle, res |-> e, t |-> 0, first |-> FALSE,
                    own |-> FALSE, a0 |-> FALSE, r0 |-> FALSE]]

End(p, s, f, r) ==
    IF f.ctx \in Signals THEN Propagate(p, s, r) ELSE EndMain(p, s, f, r, TRUE)

Apply(p, e) ==
    /\ stk' = [stk EXCEPT ![p] = e.stk]
    /\ proc' = [proc EXCEPT ![p] = e.proc]
    /\ scope' = [scope EXCEPT ![p] = e.scope]
    /\ last' = [last EXCEPT ![p] = e.last]

\* The running function of p, its frame being f, returns or raises r.
FinishAs(p, f, r) ==
    /\ Apply(p, End(p, Below(p), f, r))
    /\ sigres' = IF f.ctx \in Signals THEN [sigres EXCEPT ![p] = r] ELSE sigres
    /\ UNCHANGED <<disp, orig, nhooks, nsig, hs>>

Finish(p, r) == FinishAs(p, Top(p), r)

\* The running function of p goes on to statement f.
Goto(p, f) ==
    /\ stk' = [stk EXCEPT ![p] = Append(Below(p), f)]
    /\ UNCHANGED <<proc, scope, disp, orig, nhooks, last, sigres, nsig, hs>>

Call(p, f) ==
    /\ stk' = [stk EXCEPT ![p] = Append(@, f)]
    /\ last' = [last EXCEPT ![p] = NoLast]
    /\ UNCHANGED <<dirs, acquired, registry, scope, disp, orig, sigres, nsig, hs>>

\* ------------------------------------------------------------ the program
\* Mutant: acquire() that tests the timeout before its first mkdir.
CallAcquireCheckFirst(p, h) ==
    /\ Idle(p) /\ scope[p] = NoHandle /\ h \in hs /\ owner[h] = p
    /\ Call(p, Frame("acquire", "call", h, "check", <<>>, "ok"))
    /\ UNCHANGED <<proc, nhooks>>

\* lock.acquire()
CallAcquire(p, h) ==
    /\ Idle(p) /\ scope[p] = NoHandle /\ h \in hs /\ owner[h] = p
    /\ Call(p, Frame("acquire", "call", h, "mkdir", <<>>, "ok"))
    /\ UNCHANGED <<proc, nhooks>>

\* lock.release()
CallRelease(p, h) ==
    /\ Idle(p) /\ scope[p] = NoHandle /\ h \in hs /\ owner[h] = p
    /\ Call(p, Frame("release", "call", h, "check", <<>>, "ok"))
    /\ UNCHANGED <<proc, nhooks>>

\* _clean_locks(), called by the program
CallClean(p) ==
    /\ Idle(p) /\ scope[p] = NoHandle
    /\ \E q \in Orders(registry[p]) :
          Call(p, Frame("clean", "call", NoHandle, "loop", q, "ok"))
    /\ UNCHANGED <<proc, nhooks>>

\* with lock:
WithEnter(p, h) ==
    /\ Idle(p) /\ scope[p] = NoHandle /\ h \in hs /\ owner[h] = p
    /\ Call(p, Frame("acquire", "enter", h, "mkdir", <<>>, "ok"))
    /\ UNCHANGED <<proc, nhooks>>

\* Mutant: __exit__ that releases only when the body ended normally.
WithExitOnSuccess(p, e) ==
    /\ Idle(p) /\ scope[p] # NoHandle
    /\ IF e = "ok"
       THEN /\ Call(p, Frame("release", "exit", scope[p], "check", <<>>, e))
            /\ UNCHANGED <<proc, nhooks>>
       ELSE /\ scope' = [scope EXCEPT ![p] = NoHandle]
            /\ last' = [last EXCEPT ![p] = [NoLast EXCEPT !.op = "exit", !.h = scope[p], !.res = e]]
            /\ UNCHANGED <<dirs, acquired, registry, stk, proc, disp, orig, nhooks, sigres, nsig, hs>>

\* The body of the with-block ends, normally or with an error.
WithExit(p, e) ==
    /\ Idle(p) /\ scope[p] # NoHandle
    /\ Call(p, Frame("release", "exit", scope[p], "check", <<>>, e))
    /\ UNCHANGED <<proc, nhooks>>

\* The program ends: the interpreter runs the atexit hooks.
Exit(p) ==
    /\ Idle(p) /\ scope[p] = NoHandle
    /\ proc' = [proc EXCEPT ![p] = "exiting"]
    /\ nhooks' = [nhooks EXCEPT ![p] = @ - 1]
    /\ \E q \in Orders(registry[p]) :
          Call(p, Frame("clean", "atexit", NoHandle, "loop", q, "ok"))


\* ---------------------------------------------------------------- acquire
\* Mutant: a reentrant lock, whose mkdir passes over the handle's own directory.
AcquireMkdirReentrant(p) ==
    /\ Running(p) /\ Top(p).kind = "acquire" /\ Top(p).step = "mkdir"
    /\ LET f == Top(p)
           d == lock_dir[f.h]
       IN IF dirs[d] \in {NoDir, f.h}
          THEN /\ dirs' = [dirs EXCEPT ![d] = f.h]
               /\ Goto(p, [f EXCEPT !.step = "set"])
          ELSE /\ dirs' = dirs
               /\ Goto(p, [f EXCEPT !.step = "check", !.retried = TRUE])
    /\ UNCHANGED <<acquired, registry>>

\* os.mkdir(self.lock_dir): creates the directory, or FileExistsError.
AcquireMkdir(p) ==
    /\ Running(p) /\ Top(p).kind = "acquire" /\ Top(p).step = "mkdir"
    /\ LET f == Top(p)
           d == lock_dir[f.h]
       IN IF dirs[d] = NoDir
          THEN /\ dirs' = [dirs EXCEPT ![d] = f.h]
               /\ Goto(p, [f EXCEPT !.step = "set"])
          ELSE /\ dirs' = dirs
               /\ Goto(p, [f EXCEPT !.step = "check", !.retried = TRUE])
    /\ UNCHANGED <<acquired, registry>>

\* self.acquired = True
AcquireSet(p) ==
    /\ Running(p) /\ Top(p).kind = "acquire" /\ Top(p).step = "set"
    /\ acquired' = [acquired EXCEPT ![Top(p).h] = TRUE]
    /\ Goto(p, [Top(p) EXCEPT !.step = "add"])
    /\ UNCHANGED <<dirs, registry>>

\* Mutant: acquire() that does not register the handle.
AcquireNoAdd(p) ==
    /\ Running(p) /\ Top(p).kind = "acquire" /\ Top(p).step = "add"
    /\ Finish(p, "ok")
    /\ UNCHANGED <<dirs, acquired, registry>>

\* _allActiveLocks.add(self); break
AcquireAdd(p) ==
    /\ Running(p) /\ Top(p).kind = "acquire" /\ Top(p).step = "add"
    /\ registry' = [registry EXCEPT ![p] = @ \cup {Top(p).h}]
    /\ Finish(p, "ok")
    /\ UNCHANGED <<dirs, acquired>>

\* Mutant: the timeout is reached, not exceeded.
TimedOutAtLimit(h, now) == timeout_interval[h] >= 0 /\ now >= timeout_interval[h]

\* if self.timeout_interval >= 0.0:
\*     if (datetime.now() - start_time).total_seconds() > self.timeout_interval:
TimedOut(h, now) == timeout_interval[h] >= 0 /\ now > timeout_interval[h]

\* Mutant: the timeout test applied whatever the sign of timeout_interval.
AcquireCheckNoSign(p) ==
    /\ Running(p) /\ Top(p).kind = "acquire" /\ Top(p).step = "check"
    /\ LET f == Top(p) IN
       \E d \in 0 .. MaxJitter :
          LET now == Min(f.t + d, MaxElapsed) IN
          IF now > timeout_interval[f.h]
          THEN FinishAs(p, [f EXCEPT !.t = now], "LockTimeout")
          ELSE Goto(p, [f EXCEPT !.step = "mkdir",
                                 !.t = Min(now + retry_interval[f.h], MaxElapsed)])
    /\ UNCHANGED <<dirs, acquired, registry>>

\* The timeout check after a failed mkdir, then time.sleep(self.retry_interval).
\* The clock is read only when timeout_interval >= 0; the pass took d ticks.
AcquireCheck(p) ==
    /\ Running(p) /\ Top(p).kind = "acquire" /\ Top(p).step = "check"
    /\ LET f == Top(p) IN
       IF timeout_interval[f.h] >= 0
       THEN \E d \in 0 .. MaxJitter :
              LET now == Min(f.t + d, MaxElapsed) IN
              IF TimedOut(f.h, now)
              THEN FinishAs(p, [f EXCEPT !.t = now], "LockTimeout")
              ELSE Goto(p, [f EXCEPT !.step = "mkdir",
                                     !.t = Min(now + retry_interval[f.h], MaxElapsed)])
       ELSE Goto(p, [f EXCEPT !.step = "mkdir"])
    /\ UNCHANGED <<dirs, acquired, registry>>


\* ---------------------------------------------------------------- release
\* release() runs as a call of the program or inside _clean_locks().
InRelease(p, step) ==
    Running(p) /\ Top(p).kind \in {"release", "clean"} /\ Top(p).step = step

\* release() returns: to the program, or to the loop of _clean_locks().
ReleaseReturn(p) ==
    IF Top(p).kind = "release"
    THEN Finish(p, "ok")
    ELSE Goto(p, [Top(p) EXCEPT !.step = "unreg"])

\* Mutant: release() without its test of self.acquired.
ReleaseCheckAlways(p) ==
    /\ InRelease(p, "check")
    /\ Goto(p, [Top(p) EXCEPT !.step = "rmdir"])
    /\ UNCHANGED <<dirs, acquired, registry>>

\* if self.acquired:
ReleaseCheck(p) ==
    /\ InRelease(p, "check")
    /\ IF acquired[Top(p).h]
       THEN Goto(p, [Top(p) EXCEPT !.step = "rmdir"])
       ELSE ReleaseReturn(p)
    /\ UNCHANGED <<dirs, acquired, registry>>

\* os.rmdir(self.lock_dir): removes the directory; FileNotFoundError skips
\* the rest of the try block (the registry's remove).
ReleaseRmdir(p) ==
    /\ InRelease(p, "rmdir")
    /\ LET d == lock_dir[Top(p).h] IN
       IF dirs[d] # NoDir
       THEN /\ dirs' = [dirs EXCEPT ![d] = NoDir]
            /\ Goto(p, [Top(p) EXCEPT !.step = "remove"])
       ELSE /\ dirs' = dirs
            /\ Goto(p, [Top(p) EXCEPT !.step = "clear", !.missing = TRUE])
    /\ UNCHANGED <<acquired, registry>>

\* _allActiveLocks.remove(self): KeyError when self is not in the set.
ReleaseRemove(p) ==
    /\ InRelease(p, "remove")
    /\ IF Top(p).h \in registry[p]
       THEN /\ registry' = [registry EXCEPT ![p] = @ \ {Top(p).h}]
            /\ Goto(p, [Top(p) EXCEPT !.step = "clear"])
       ELSE /\ registry' = registry
            /\ Finish(p, "KeyError")
    /\ UNCHANGED <<dirs, acquired>>

\* Mutant: release() that leaves self.acquired set.
ReleaseClearKeep(p) ==
    /\ InRelease(p, "clear")
    /\ ReleaseReturn(p)
    /\ UNCHANGED <<dirs, acquired, registry>>

\* self.acquired = False
ReleaseClear(p) ==
    /\ InRelease(p, "clear")
    /\ acquired' = [acquired EXCEPT ![Top(p).h] = FALSE]
    /\ ReleaseReturn(p)
    /\ UNCHANGED <<dirs, registry>>

\* ----------------------------------------------------------- _clean_locks
\* for dl in locks_to_release: dl.release()
\* After the loop _clean_locks returns; a signal handler goes on to line 46/61.
CleanLoop(p) ==
    /\ Running(p) /\ Top(p).kind = "clean" /\ Top(p).step = "loop"
    /\ LET f == Top(p) IN
       IF f.todo = <<>>
       THEN IF f.ctx \in Signals
            THEN Goto(p, [f EXCEPT !.step = "chain", !.h = NoHandle])
            ELSE FinishAs(p, [f EXCEPT !.h = NoHandle], "ok")
       ELSE Goto(p, [f EXCEPT !.h = Head(f.todo), !.todo = Tail(f.todo),
                              !.step = "check", !.missing = FALSE,
                              !.a0 = acquired[Head(f.todo)], !.r0 = TRUE])
    /\ UNCHANGED <<dirs, acquired, registry>>

\* _allActiveLocks.remove(dl): KeyError when dl is not in the set.
CleanUnreg(p) ==
    /\ Running(p) /\ Top(p).kind = "clean" /\ Top(p).step = "unreg"
    /\ IF Top(p).h \in registry[p]
       THEN /\ registry' = [registry EXCEPT ![p] = @ \ {Top(p).h}]
            /\ Goto(p, [Top(p) EXCEPT !.step = "loop"])
       ELSE /\ registry' = registry
            /\ Finish(p, "KeyError")
    /\ UNCHANGED <<dirs, acquired>>

\* ----------------------------------------------------------------- signals
\* Signal sig reaches p while orig[p][sig] is the installed handler; s is the
\* stack of p's program.  SIG_DFL ends the process at once, without atexit;
\* default_int_handler raises KeyboardInterrupt in the program; a user's
\* handler runs and the program goes on.
Deliver(p, sig, s) ==
    CASE orig[p][sig] = "SIG_DFL" ->
           [stk |-> <<>>, proc |-> "killed", scope |-> NoHandle, last |-> last[p]]
      [] orig[p][sig] = "default_int_handler" -> Propagate(p, s, "KeyboardInterrupt")
      [] OTHER -> [stk |-> s, proc |-> proc[p], scope |-> scope[p], last |-> last[p]]

\* handle_sigint_cleanup / handle_sigterm_cleanup after _clean_locks():
\* if the original handler is not None, restore it and os.kill(os.getpid(), sig).
\* When the original handler is the module's own handler (captured by a
\* second execution of the module's body), the re-delivered signal starts the
\* handler again inside itself, until Python raises RecursionError.
HandlerChain(p) ==
    /\ Running(p) /\ Top(p).kind = "clean" /\ Top(p).step = "chain"
    /\ LET sig == Top(p).ctx IN
       CASE orig[p][sig] = "None" ->
              /\ stk' = [stk EXCEPT ![p] = Below(p)]
              /\ sigres' = [sigres EXCEPT ![p] = "swallowed"]
              /\ UNCHANGED <<proc, scope, last, disp>>
         [] orig[p][sig] = "dirlock" ->
              /\ \/ /\ \E q \in Orders(registry[p]) :
                          stk' = [stk EXCEPT ![p] =
                                    Append(Below(p), Frame("clean", sig, NoHandle, "loop", q, "ok"))]
                    /\ sigres' = [sigres EXCEPT ![p] = "handling"]
                    /\ UNCHANGED <<proc, scope, last>>
                 \/ /\ Apply(p, Propagate(p, Below(p), "RecursionError"))
                    /\ sigres' = [sigres EXCEPT ![p] = "RecursionError"]
              /\ UNCHANGED disp
         [] OTHER ->
              /\ disp' = [disp EXCEPT ![p][sig] = "orig"]
              /\ Apply(p, Deliver(p, sig, Below(p)))
              /\ sigres' = [sigres EXCEPT ![p] = orig[p][sig]]
    /\ UNCHANGED <<dirs, acquired, registry, orig, nhooks, nsig, hs>>

\* A signal is delivered to p between two statements: the module's handler
\* starts with _clean_locks() (its snapshot is taken at once), or, once the
\* original handler is restored, the original handler acts.
Signal(p, sig) ==
    /\ p \in SigProcs /\ proc[p] = "run" /\ ~InHandler(p) /\ nsig < MaxSignals
    /\ nsig' = nsig + 1
    /\ IF disp[p][sig] = "dirlock"
       THEN /\ \E q \in Orders(registry[p]) :
                 stk' = [stk EXCEPT ![p] =
                           Append(@, Frame("clean", sig, NoHandle, "loop", q, "ok"))]
            /\ sigres' = [sigres EXCEPT ![p] = "handling"]
            /\ UNCHANGED <<proc, scope, last>>
       ELSE /\ Apply(p, Deliver(p, sig, stk[p]))
            /\ sigres' = [sigres EXCEPT ![p] = orig[p][sig]]
    /\ UNCHANGED <<dirs, acquired, registry, disp, orig, nhooks, hs>>

\* ------------------------------------------------- the module's body again
\* The body of the module is executed again in the same namespace
\* (importlib.reload): lines 22-25 bind a new empty set and capture the
\* handlers that are installed now; line 69 registers _clean_locks once more;
\* lines 71-81 install the handlers.
Reload(p) ==
    /\ Idle(p) /\ scope[p] = NoHandle /\ nhooks[p] < MaxInits
    /\ registry' = [registry EXCEPT ![p] = {}]
    /\ orig' = [orig EXCEPT ![p] =
                  [s \in Signals |-> IF disp[p][s] = "dirlock" THEN "dirlock" ELSE orig[p][s]]]
    /\ nhooks' = [nhooks EXCEPT ![p] = @ + 1]
    /\ disp' = [disp EXCEPT ![p] = [s \in Signals |-> "dirlock"]]
    /\ UNCHANGED <<dirs, acquired, stk, proc, scope, last, sigres, nsig, hs>>

\* atexit runs the next registered hook.
NextHook(p) ==
    /\ proc[p] = "exiting" /\ stk[p] = <<>> /\ nhooks[p] > 0
    /\ nhooks' = [nhooks EXCEPT ![p] = @ - 1]
    /\ \E q \in Orders(registry[p]) :
          Call(p, Frame("clean", "atexit", NoHandle, "loop", q, "ok"))
    /\ UNCHANGED proc

\* --------------------------------------------------------- specification
Next ==
    \/ \E p \in Procs, h \in Handles : CallAcquire(p, h)
    \/ \E p \in Procs, h \in Handles : CallRelease(p, h)
    \/ \E p \in Procs : CallClean(p)
    \/ \E p \in Procs, h \in Handles : WithEnter(p, h)
    \/ \E p \in Procs, e \in {"ok", "Error"} : WithExit(p, e)
    \/ \E p \in Procs : Exit(p)
    \/ \E p \in Procs : AcquireMkdir(p)
    \/ \E p \in Procs : AcquireSet(p)
    \/ \E p \in Procs : AcquireAdd(p)
    \/ \E p \in Procs : AcquireCheck(p)
    \/ \E p \in Procs : ReleaseCheck(p)
    \/ \E p \in Procs : ReleaseRmdir(p)
    \/ \E p \in Procs : ReleaseRemove(p)
    \/ \E p \in Procs : ReleaseClear(p)
    \/ \E p \in Procs : CleanLoop(p)
    \/ \E p \in Procs : CleanUnreg(p)
    \/ \E p \in Procs : HandlerChain(p)
    \/ \E p \in Procs, sig \in Signals : Signal(p, sig)

Spec == Init /\ [][Next]_vars

\* A process with three locks whose program also reloads the module.
InitReload == Init /\ hs = {"h1", "h2", "h3"}

NextReload ==
    \/ Next
    \/ \E p \in Procs : Reload(p)
    \/ \E p \in Procs : NextHook(p)

SpecReload == InitReload /\ [][NextReload]_vars

\* The next statement of the function that process p is running.
Step(p) ==
    \/ AcquireMkdir(p) \/ AcquireSet(p) \/ AcquireAdd(p) \/ AcquireCheck(p)
    \/ ReleaseCheck(p) \/ ReleaseRmdir(p) \/ ReleaseRemove(p) \/ ReleaseClear(p)
    \/ CleanLoop(p) \/ CleanUnreg(p)

\* Runs in which no signal is sent.  A process that is running a function
\* executes its next statement in the end (the poll loop of acquire() sleeps
\* for a finite time).
InitLive == Init /\ orig[1]["SIGINT"] = "default_int_handler"

NextLive ==
    \/ \E p \in Procs, h \in Handles : CallAcquire(p, h)
    \/ \E p \in Procs, h \in Handles : CallRelease(p, h)
    \/ \E p \in Procs : CallClean(p)
    \/ \E p \in Procs, h \in Handles : WithEnter(p, h)
    \/ \E p \in Procs, e \in {"ok", "Error"} : WithExit(p, e)
    \/ \E p \in Procs : Exit(p)
    \/ \E p \in Procs : Step(p)

LiveSpec == InitLive /\ [][NextLive]_vars /\ \A p \in Procs : WF_vars(Step(p))


\* ------------------------------------------------------------------ claims
Alive(p) == proc[p] \in {"run", "exiting"}

\* C1: two distinct handles bound to the same path never both have
\* acquired = TRUE (handles of processes that are running).
C1_MutualExclusion ==
    \A h1, h2 \in hs :
        (h1 # h2 /\ lock_dir[h1] = lock_dir[h2] /\ Alive(owner[h1]) /\ Alive(owner[h2]))
            => ~(acquired[h1] /\ acquired[h2])

\* The function p is running returns or raises by itself in this step (it is
\* not ended by the exception of a signal handler).
Ends(p, kind, ctxs) ==
    /\ Running(p) /\ Top(p).kind = kind /\ Top(p).ctx \in ctxs
    /\ stk'[p] # stk[p] /\ Len(stk'[p]) < Len(stk[p])
    /\ proc'[p] # "killed" /\ last'[p].own

\* C2: a call of _clean_locks() by the program ends without error, and then
\* the registry is empty, and every handle that was registered has
\* acquired = FALSE and its directory is gone.
C2_CleanupAllCompletes ==
    [][\A p \in Procs :
         Ends(p, "clean", {"call"})
            => /\ last'[p].res = "ok"
               /\ registry'[p] = {}
               /\ \A h \in Top(p).snap :
                      ~acquired'[h] /\ dirs'[lock_dir[h]] # h]_vars


\* The top frame of p takes a step of its own in this step: no handler starts,
\* and no signal ends it.
Steps(p) ==
    /\ stk'[p] # stk[p] /\ proc'[p] # "killed"
    /\ \/ Len(stk'[p]) = Len(stk[p])
       \/ Len(stk'[p]) < Len(stk[p]) /\ (InHandler(p) \/ last'[p].own)

\* The signal handler that p is running ends in this step: it returns, raises,
\* or the process dies of the re-delivered signal.
HandlerEnds(p) ==
    /\ InHandler(p)
    /\ ~(stk'[p] # <<>> /\ stk'[p][Len(stk'[p])].ctx \in Signals)

C4_RoundTrip ==
    [][\A p \in Procs :
         /\ (Ends(p, "release", {"call", "exit"}) /\ Top(p).step = "clear" /\ ~Top(p).missing)
               => LET h == Top(p).h
                  IN /\ ~acquired'[h]
                     /\ h \notin registry'[p]
                     /\ dirs'[lock_dir[h]] # h
                     /\ last'[p].own
         /\ (/\ Running(p) /\ Top(p).kind = "acquire" /\ Top(p).step = "mkdir"
             /\ ~Top(p).retried /\ dirs[lock_dir[Top(p).h]] = NoDir /\ Steps(p))
               => /\ dirs'[lock_dir[Top(p).h]] = Top(p).h
                  /\ stk'[p][Len(stk'[p])].step = "set"
         /\ (Ends(p, "acquire", {"call", "enter"}) /\ Top(p).step = "add")
               => /\ last'[p].res = "ok"
                  /\ last'[p].first = ~Top(p).retried
                  /\ Top(p).h \in registry'[p]
                  /\ acquired'[Top(p).h]]_vars

\* Handle h1 was acquired and released; then handle h4 acquired the same path at
\* its first attempt.
C4_Witness ==
    /\ last[1].op = "release" /\ last[1].h = "h1" /\ last[1].a0 /\ last[1].res = "ok"
    /\ ~acquired["h1"] /\ "h1" \notin registry[1]
    /\ last[2].op = "acquire" /\ last[2].h = "h4" /\ last[2].first
    /\ acquired["h4"] /\ dirs["a"] = "h4"

\* C5: when the handler of SIGINT or SIGTERM ends in a process that held
\* registered locks, the registry is empty and every one of those locks has
\* its directory removed and acquired = FALSE.
C5_SignalCleanup ==
    [][\A p \in Procs :
         (HandlerEnds(p) /\ Top(p).snap # {})
            => /\ registry'[p] = {}
               /\ \A h \in Top(p).snap :
                      ~acquired'[h] /\ dirs'[lock_dir[h]] # h]_vars

\* C6: when the exit hook has run, no directory of a lock the process held at
\* its exit exists.
C6_ExitCleanup ==
    [][\A p \in Procs :
         Ends(p, "clean", {"atexit"})
            => \A h \in Top(p).snap : dirs'[lock_dir[h]] # h]_vars

\* C7: the handler ends with the previous handler restored and the signal
\* delivered again, so that what the previous handler does happens, whatever
\* the previous handler is.
C7_SignalChaining ==
    [][\A p \in Procs :
         HandlerEnds(p)
            => /\ disp'[p][Top(p).ctx] = "orig"
               /\ sigres'[p] = orig[p][Top(p).ctx]]_vars

\* C8: a with-block is entered with the handle acquired; it is left only
\* through release(); when that release() ends by itself the handle is not
\* acquired and its directory is gone, and an error that left the body is
\* still raised.
C8_Scoped ==
    [][\A p \in Procs :
         /\ (scope[p] = NoHandle /\ scope'[p] # NoHandle)
               => /\ Ends(p, "acquire", {"enter"})
                  /\ acquired'[scope'[p]]
         /\ (scope[p] # NoHandle /\ scope'[p] = NoHandle /\ proc'[p] # "killed")
               => /\ stk[p] # <<>>
                  /\ stk[p][1].kind = "release" /\ stk[p][1].ctx = "exit"
                  /\ stk[p][1].h = scope[p]
         /\ Ends(p, "release", {"exit"})
               => /\ scope'[p] = NoHandle
                  /\ ~acquired'[Top(p).h]
                  /\ dirs'[lock_dir[Top(p).h]] # Top(p).h
                  /\ Top(p).err # "ok" => last'[p].res # "ok"]_vars

\* A with-block was left by an error: the lock is released and the error is raised.
C8_Witness ==
    /\ last[1].op = "exit" /\ last[1].h = "h1" /\ last[1].res = "Error" /\ last[1].a0
    /\ last[1].own /\ nsig = 0
    /\ ~acquired["h1"] /\ dirs["a"] = NoDir /\ scope[1] = NoHandle

\* C9: release() of a handle with acquired = FALSE returns at once, raises
\* nothing and changes no directory, no registry and no acquired flag.  A
\* release() that returns leaves acquired = FALSE, so that a second release()
\* in a row is such a call.
C9_ReleaseNoop ==
    [][\A p \in Procs :
         /\ (InRelease(p, "check") /\ ~acquired[Top(p).h] /\ Steps(p))
               => /\ UNCHANGED <<dirs, acquired, registry>>
                  /\ Top(p).kind = "release" =>
                         (stk'[p] = Below(p) /\ last'[p].own /\ last'[p].res = Top(p).err)
                  /\ Top(p).kind = "clean" =>
                         stk'[p][Len(stk'[p])].step = "unreg"
         /\ (Ends(p, "release", {"call", "exit"}) /\ Top(p).step \in {"check", "clear"})
               => ~acquired'[Top(p).h]]_vars

\* release() of handle h4, not acquired, returned while handle h1 holds the path.
C9_Witness ==
    /\ last[2].op = "release" /\ last[2].h = "h4" /\ ~last[2].a0
    /\ last[2].own /\ last[2].res = "ok"
    /\ acquired["h1"] /\ dirs["a"] = "h1" /\ "h1" \in registry[1] /\ ~acquired["h4"]

\* C10: release() of an acquired handle whose directory is already absent
\* raises nothing, removes the handle from the registry and sets
\* acquired = FALSE.
C10_ReleaseMissing ==
    [][\A p \in Procs :
         (InRelease(p, "clear") /\ Top(p).missing /\ Steps(p))
            => /\ ~acquired'[Top(p).h]
               /\ Top(p).h \notin registry'[p]
               /\ Top(p).kind = "release" => last'[p].res = Top(p).err]_vars

\* C11: whenever a running process is between two operations (nothing of it is
\* mid-execution), its registry holds exactly its handles with acquired = TRUE.
C11_RegistryExact ==
    \A p \in Procs :
        Idle(p) => registry[p] = {h \in hs : owner[h] = p /\ acquired[h]}

\* C12: LockTimeout, raised by acquire(), is the only error the lock system
\* raises: no operation of the program, no exit hook and no signal handler
\* ends with KeyError.  (An error of the with-body and the KeyboardInterrupt
\* of Python's own SIGINT handler are not the lock system's.)
C12_OnlyLockTimeout ==
    \A p \in Procs :
        /\ last[p].res \in {"ok", "LockTimeout", "Error", "KeyboardInterrupt"}
        /\ last[p].res = "LockTimeout" => last[p].op \in {"acquire", "enter"}
        /\ sigres[p] # "KeyError"

\* C13: whatever a handle went through before, an acquire() on it while it is
\* not acquired creates the directory when its mkdir finds the path free, then
\* sets acquired, then registers the handle and returns without error.
C13_Reusable ==
    [][\A p \in Procs :
         LET f == Top(p)
             g == stk'[p][Len(stk'[p])]
         IN (Running(p) /\ f.kind = "acquire" /\ Steps(p))
               => /\ (f.step = "mkdir" /\ ~acquired[f.h] /\ dirs[lock_dir[f.h]] = NoDir)
                        => (dirs'[lock_dir[f.h]] = f.h /\ g.step = "set")
                  /\ f.step = "set" => (acquired'[f.h] /\ g.step = "add")
                  /\ f.step = "add"
                        => /\ stk'[p] = Below(p)
                           /\ last'[p].res = "ok"
                           /\ acquired'[f.h] /\ f.h \in registry'[p]]_vars

\* Handle h4 had been acquired and released before (its release() found the
\* directory removed and left it in the registry, not acquired); the acquire()
\* that followed on it succeeded.
C13_Witness ==
    /\ last[2].op = "acquire" /\ last[2].h = "h4" /\ last[2].res = "ok" /\ last[2].own
    /\ ~last[2].a0 /\ last[2].r0
    /\ acquired["h4"] /\ "h4" \in registry[2] /\ dirs["a"] = "h4"

\* C14: in every process exactly one exit hook is registered while the program
\* runs (and never more than one is left to run), and the captured previous
\* handler of a signal is never the lock system's own handler.
C14_HooksOnce ==
    \A p \in Procs :
        /\ proc[p] = "run" => nhooks[p] = 1
        /\ nhooks[p] <= 1
        /\ \A s \in Signals : orig[p][s] # "dirlock"

\* C15: when a signal handler that interrupted acquire() or release() ends,
\* its cleanup has raised no KeyError; if the process dies of the signal, no
\* directory created by one of its handles is left; if the process survives,
\* the interrupted operation can go on without error: a release() that is
\* about to unregister its handle still finds it in the registry.
C15_SignalReentrancy ==
    [][\A p \in Procs :
         (/\ HandlerEnds(p) /\ Below(p) # <<>>
          /\ Below(p)[Len(Below(p))].kind \in {"acquire", "release"})
            => /\ sigres'[p] # "KeyError"
               /\ proc'[p] = "killed" =>
                      \A h \in hs : owner[h] = p => dirs'[lock_dir[h]] # h
               /\ (proc'[p] = "run" /\ stk'[p] # <<>>) =>
                      LET g == stk'[p][Len(stk'[p])]
                      IN (g.kind = "release" /\ g.step = "remove") => g.h \in registry'[p]]_vars

\* C16: os.rmdir of release() removes only a directory that the releasing
\* handle created: when it finds a directory at its path, that directory's
\* latest creation was by this handle.
C16_OwnDirectoryOnly ==
    [][\A p \in Procs :
         (InRelease(p, "rmdir") /\ Steps(p) /\ dirs[lock_dir[Top(p).h]] # NoDir)
            => dirs[lock_dir[Top(p).h]] = Top(p).h]_vars

\* C17: acquire() called on a handle that is acquired, while the handle still
\* is acquired and its own directory exists, only polls: each attempt fails and
\* each check changes no directory, no registry and no acquired flag; it never
\* goes on to succeed, and it ends by itself only with LockTimeout, which takes
\* timeout_interval >= 0 (with a negative one it does not end).
C17_SelfAcquire ==
    [][\A p \in Procs :
         LET f == Top(p) IN
         (/\ Running(p) /\ f.kind = "acquire" /\ f.step \in {"mkdir", "check"}
          /\ f.a0 /\ acquired[f.h] /\ dirs[lock_dir[f.h]] = f.h /\ Steps(p))
            => /\ UNCHANGED <<dirs, acquired, registry>>
               /\ IF Len(stk'[p]) = Len(stk[p])
                  THEN stk'[p][Len(stk'[p])].step \in {"mkdir", "check"}
                  ELSE /\ last'[p].res = "LockTimeout"
                       /\ timeout_interval[f.h] >= 0]_vars

\* Handle h2 (timeout 0) was acquired; a second acquire() on it timed out and
\* left it acquired, registered and its directory in place.
C17_Witness ==
    /\ last[1].op = "acquire" /\ last[1].h = "h2" /\ last[1].res = "LockTimeout"
    /\ last[1].a0 /\ last[1].own
    /\ acquired["h2"] /\ "h2" \in registry[1] /\ dirs["b"] = "h2"

\* The program of p is in acquire() on handle h.
InAcquire(p, h) ==
    stk[p] # <<>> /\ stk[p][1].kind = "acquire" /\ stk[p][1].h = h

\* C18: with timeout_interval < 0, acquire() ends by itself only by returning
\* after it created the directory, never with LockTimeout; while a directory
\* is at the path each mkdir fails and each check goes back to mkdir with
\* nothing changed (it blocks); and, every running statement being executed in
\* the end, an acquire() in progress leads to its return with the handle
\* acquired, unless a directory it did not just create is at the path.
C18_NoTimeoutWaits ==
    /\ [][\A p \in Procs :
            LET f == Top(p) IN
            (/\ Running(p) /\ f.kind = "acquire" /\ timeout_interval[f.h] < 0 /\ Steps(p))
               => /\ Len(stk'[p]) < Len(stk[p]) =>
                        (f.step = "add" /\ last'[p].res = "ok" /\ acquired'[f.h])
                  /\ (f.step = "mkdir" /\ dirs[lock_dir[f.h]] # NoDir) =>
                        (stk'[p][Len(stk'[p])].step = "check"
                           /\ UNCHANGED <<dirs, acquired, registry>>)
                  /\ f.step = "check" =>
                        (/\ Len(stk'[p]) = Len(stk[p])
                         /\ stk'[p][Len(stk'[p])].step = "mkdir"
                         /\ UNCHANGED <<dirs, acquired, registry>>)]_vars
    /\ \A p \in Procs : \A h \in {g \in Handles : owner[g] = p /\ timeout_interval[g] < 0} :
          InAcquire(p, h)
             ~> \/ /\ last[p].op \in {"acquire", "enter"} /\ last[p].h = h
                   /\ last[p].res = "ok" /\ last[p].own
                \/ /\ InAcquire(p, h) /\ dirs[lock_dir[h]] # NoDir
                   /\ stk[p][1].step \in {"mkdir", "check"}

\* Handle h1 (no timeout) found the path held, waited, and acquired it.
C18_Witness ==
    /\ last[1].op = "acquire" /\ last[1].h = "h1" /\ last[1].res = "ok"
    /\ ~last[1].first /\ last[1].own
    /\ acquired["h1"] /\ "h1" \in registry[1] /\ dirs["a"] = "h1"

\* C19: every acquire() starts with a creation attempt, whatever its
\* timeout_interval; an attempt on a free path succeeds and leads to
\* self.acquired = True and the registration, never to the timeout test; the
\* timeout is tested only after a failed attempt, and LockTimeout is raised
\* only from that test.
C19_AttemptFirst ==
    [][\A p \in Procs :
         LET f == Top(p)
             g == stk'[p][Len(stk'[p])]
         IN /\ (Len(stk'[p]) > Len(stk[p]) /\ g.kind = "acquire")
                  => (g.step = "mkdir" /\ ~g.retried)
            /\ (Running(p) /\ f.kind = "acquire" /\ Steps(p))
                  => /\ f.step = "mkdir" =>
                           g.step = (IF dirs[lock_dir[f.h]] = NoDir THEN "set" ELSE "check")
                     /\ f.step = "set" => g.step = "add"
                     /\ f.step = "add" => (stk'[p] = Below(p) /\ last'[p].res = "ok")
                     /\ f.step = "check" => f.retried
                     /\ (Len(stk'[p]) < Len(stk[p]) /\ last'[p].res = "LockTimeout")
                           => f.step = "check"]_vars

\* Handle h2 (timeout 0) acquired its free path at the first attempt.
C19_Witness ==
    /\ last[1].op = "acquire" /\ last[1].h = "h2" /\ last[1].res = "ok"
    /\ last[1].first /\ last[1].own /\ ~last[1].a0
    /\ acquired["h2"] /\ "h2" \in registry[1] /\ dirs["b"] = "h2"

====
